---- MODULE Spec2Model ----
(***************************************************************************)
(* A model of the dispatch CLI's terminal UI (cli/tui.go): the call-tree   *)
(* store fed by ObserveRequest / ObserveResponse, the log buffer fed by    *)
(* Write, the renderer (functionCallsView / buildRows) and View.           *)
(*                                                                         *)
(* Times are naturals; 0 is Go's zero time.Time (IsZero).  A nil error is  *)
(* the empty tuple, any other error is the tuple of the pieces of its      *)
(* text.  A DispatchID is a string, "" being the empty id.                 *)
(***************************************************************************)
EXTENDS Integers, Sequences, FiniteSets, TLC

VARIABLES
    allocated,     \* t.roots and t.nodes are non-nil maps
    roots,         \* t.roots
    orderedRoots,  \* t.orderedRoots
    nodes,         \* t.nodes
    logs,          \* t.logs, as the number of bytes buffered
    panicked,      \* "" while the process runs, else the text of the panic that ended it
    mu,            \* t.mu: "" when free, else the party holding it
    now,           \* the wall clock read by time.Now()
    inflight,      \* per party, the call it is inside of (between its entry and its return)
    stack,         \* the render's call stack of buildRows frames
    rows,          \* the render's row buffer (rowBuffer.rows) for the current root
    blocks,        \* the tables the current render has emitted, one list of rows per root
    rootIndex,     \* the render's position in t.orderedRoots
    ready,         \* t.ready
    activeTab,     \* t.activeTab
    tail,          \* t.tail
    ticks,         \* t.ticks
    refresh,       \* the refresh ticks (tickMsg) scheduled with tick() and not handled yet
    quit,          \* Update has returned tea.Quit: the event loop has ended
    last,          \* history: the last store event, and the node it found
    marked,        \* history: a request observed earlier, with only requests observed since,
                   \* and whether it has been observed again
    linked,        \* history: for every id a request was observed for, whether its parent
                   \* has not been reset since that request was last observed
    moved          \* history: a movement key was pressed since Init or the last "t"

vars == <<allocated, roots, orderedRoots, nodes, logs, panicked, mu, now, inflight,
          stack, rows, blocks, rootIndex, ready, activeTab, tail, ticks, refresh, quit,
          last, marked, linked, moved>>

storeVars == <<allocated, roots, orderedRoots, nodes>>
renderVars == <<stack, rows, blocks, rootIndex>>
loopVars == <<tail, ticks, refresh, quit, moved>>

(***************************************************************************)
(* Bounds of the model.                                                    *)
(***************************************************************************)
MaxTime == 2          \* the clock runs from 1 to MaxTime
MaxResponses == 2     \* ObserveResponse is observed while the node's counter is below this
MaxLogs == 2          \* bytes the log buffer may hold

(***************************************************************************)
(* sdkv1.Status, by name.                                                  *)
(***************************************************************************)
STATUS_UNSPECIFIED == "STATUS_UNSPECIFIED"
STATUS_OK == "STATUS_OK"
STATUS_TIMEOUT == "STATUS_TIMEOUT"
STATUS_THROTTLED == "STATUS_THROTTLED"
STATUS_INVALID_ARGUMENT == "STATUS_INVALID_ARGUMENT"
STATUS_INVALID_RESPONSE == "STATUS_INVALID_RESPONSE"
STATUS_TEMPORARY_ERROR == "STATUS_TEMPORARY_ERROR"
STATUS_PERMANENT_ERROR == "STATUS_PERMANENT_ERROR"
STATUS_INCOMPATIBLE_STATE == "STATUS_INCOMPATIBLE_STATE"
STATUS_DNS_ERROR == "STATUS_DNS_ERROR"
STATUS_TCP_ERROR == "STATUS_TCP_ERROR"
STATUS_TLS_ERROR == "STATUS_TLS_ERROR"
STATUS_HTTP_ERROR == "STATUS_HTTP_ERROR"
STATUS_UNAUTHENTICATED == "STATUS_UNAUTHENTICATED"
STATUS_PERMISSION_DENIED == "STATUS_PERMISSION_DENIED"
STATUS_NOT_FOUND == "STATUS_NOT_FOUND"

Statuses ==
    { STATUS_UNSPECIFIED, STATUS_OK, STATUS_TIMEOUT, STATUS_THROTTLED,
      STATUS_INVALID_ARGUMENT, STATUS_INVALID_RESPONSE, STATUS_TEMPORARY_ERROR,
      STATUS_PERMANENT_ERROR, STATUS_INCOMPATIBLE_STATE, STATUS_DNS_ERROR,
      STATUS_TCP_ERROR, STATUS_TLS_ERROR, STATUS_HTTP_ERROR, STATUS_UNAUTHENTICATED,
      STATUS_PERMISSION_DENIED, STATUS_NOT_FOUND }

(***************************************************************************)
(* The status classifiers.                                                 *)
(***************************************************************************)
terminalStatusTimeoutTerminal(status) ==
    status \notin { STATUS_THROTTLED, STATUS_TEMPORARY_ERROR,
                    STATUS_INCOMPATIBLE_STATE, STATUS_DNS_ERROR, STATUS_TCP_ERROR,
                    STATUS_TLS_ERROR, STATUS_HTTP_ERROR }

terminalStatus(status) ==
    status \notin { STATUS_TIMEOUT, STATUS_THROTTLED, STATUS_TEMPORARY_ERROR,
                    STATUS_INCOMPATIBLE_STATE, STATUS_DNS_ERROR, STATUS_TCP_ERROR,
                    STATUS_TLS_ERROR, STATUS_HTTP_ERROR }

terminalHTTPStatusCodeNo501(code) ==
    CASE code \div 100 = 4 -> code # 408 /\ code # 429
      [] code \div 100 = 5 -> FALSE
      [] OTHER -> TRUE

terminalHTTPStatusCode(code) ==
    CASE code \div 100 = 4 -> code # 408 /\ code # 429
      [] code \div 100 = 5 -> code = 501
      [] OTHER -> TRUE

statusString(status) ==
    CASE status = STATUS_OK -> <<"OK">>
      [] status = STATUS_TIMEOUT -> <<"Timeout">>
      [] status = STATUS_THROTTLED -> <<"Throttled">>
      [] status = STATUS_INVALID_ARGUMENT -> <<"Invalid response">>
      [] status = STATUS_TEMPORARY_ERROR -> <<"Temporary error">>
      [] status = STATUS_PERMANENT_ERROR -> <<"Permanent error">>
      [] status = STATUS_INCOMPATIBLE_STATE -> <<"Incompatible state">>
      [] status = STATUS_DNS_ERROR -> <<"DNS error">>
      [] status = STATUS_TCP_ERROR -> <<"TCP error">>
      [] status = STATUS_TLS_ERROR -> <<"TLS error">>
      [] status = STATUS_HTTP_ERROR -> <<"HTTP error">>
      [] status = STATUS_UNAUTHENTICATED -> <<"Unauthenticated">>
      [] status = STATUS_PERMISSION_DENIED -> <<"Permission denied">>
      [] status = STATUS_NOT_FOUND -> <<"Not found">>
      [] OTHER -> <<status>>

(***************************************************************************)
(* strconv-style decimal text of a status code, digit by digit.            *)
(***************************************************************************)
Digit(d) ==
    CASE d = 0 -> "0" [] d = 1 -> "1" [] d = 2 -> "2" [] d = 3 -> "3" [] d = 4 -> "4"
      [] d = 5 -> "5" [] d = 6 -> "6" [] d = 7 -> "7" [] d = 8 -> "8" [] OTHER -> "9"

RECURSIVE Itoa(_)
Itoa(n) == IF n < 10 THEN <<Digit(n)>> ELSE Itoa(n \div 10) \o <<Digit(n % 10)>>

(***************************************************************************)
(* The node struct and the node map.                                       *)
(***************************************************************************)
NoError == <<>>

ZeroNode ==
    [ function |-> "", failures |-> 0, responses |-> 0,
      status |-> STATUS_UNSPECIFIED, error |-> NoError,
      running |-> FALSE, done |-> FALSE,
      creationTime |-> 0, expirationTime |-> 0, doneTime |-> 0,
      children |-> {}, orderedChildren |-> <<>> ]

\* node{function: f}
NodeWithFunction(f) == [ZeroNode EXCEPT !.function = f]

\* m[id] of a Go map: the zero value when the key is absent (or the map nil)
Lookup(m, id) == IF id \in DOMAIN m THEN m[id] ELSE ZeroNode

\* m[id] = n
Put(m, id, n) == [x \in (DOMAIN m) \cup {id} |-> IF x = id THEN n ELSE m[x]]

EmptyMap == [x \in {} |-> ZeroNode]

\* the TUI's store fields as one value
TUI == [ allocated |-> allocated, roots |-> roots, orderedRoots |-> orderedRoots,
         nodes |-> nodes, panicked |-> panicked ]


(***************************************************************************)
(* ObserveRequest, as a function of the store.  A request is               *)
(*   [rootID, parentID, id, function, creationTime, expirationTime]        *)
(* where a creationTime or expirationTime of 0 is a nil timestamp.         *)
(***************************************************************************)

\* "Upsert the root": register rootID once, and make sure it has a node
UpsertRootTwice(t, rootID) ==
    [t EXCEPT !.allocated = TRUE,
              !.roots = @ \cup {rootID},
              !.orderedRoots = Append(@, rootID),
              !.nodes = Put(@, rootID, Lookup(@, rootID))]

UpsertRoot(t, rootID) ==
    [t EXCEPT !.allocated = TRUE,
              !.roots = @ \cup {rootID},
              !.orderedRoots = IF rootID \in t.roots THEN @ ELSE Append(@, rootID),
              !.nodes = Put(@, rootID, Lookup(@, rootID))]

\* "Upsert the node": the new contents of the node of req.id
UpsertNodeNotRunning(n, req, clock) ==
    LET created == IF req.creationTime # 0 THEN req.creationTime ELSE n.creationTime
    IN  [n EXCEPT !.function = req.function,
                  !.creationTime = IF created = 0 THEN clock ELSE created,
                  !.expirationTime = IF req.expirationTime # 0
                                     THEN req.expirationTime ELSE @]

UpsertNode(n, req, clock) ==
    LET created == IF req.creationTime # 0 THEN req.creationTime ELSE n.creationTime
    IN  [n EXCEPT !.function = req.function,
                  !.running = TRUE,
                  !.creationTime = IF created = 0 THEN clock ELSE created,
                  !.expirationTime = IF req.expirationTime # 0
                                     THEN req.expirationTime ELSE @]

\* the missing-parent check: the parent has no node and is not the root
MissingParentPanics(m, parentID, rootID) ==
    parentID \notin DOMAIN m /\ parentID # rootID

\* link the child to its parent, once
LinkChildFirst(parent, id) ==
    IF id \in parent.children
    THEN parent
    ELSE [parent EXCEPT !.children = @ \cup {id},
                        !.orderedChildren = <<id>> \o @]

LinkChildAlways(parent, id) ==
    [parent EXCEPT !.children = @ \cup {id},
                   !.orderedChildren = Append(@, id)]

LinkChild(parent, id) ==
    IF id \in parent.children
    THEN parent
    ELSE [parent EXCEPT !.children = @ \cup {id},
                        !.orderedChildren = Append(@, id)]

ObserveRequestOp(t, req, clock) ==
    LET t1 == UpsertRoot(t, req.rootID)
        n == UpsertNode(Lookup(t1.nodes, req.id), req, clock)
        t2 == [t1 EXCEPT !.nodes = Put(@, req.id, n)]
    IN  IF req.parentID = ""
        THEN t2
        ELSE IF MissingParentPanics(t2.nodes, req.parentID, req.rootID)
        THEN [t2 EXCEPT !.panicked = "not implemented"]
        ELSE [t2 EXCEPT !.nodes =
                 Put(@, req.parentID, LinkChild(Lookup(@, req.parentID), req.id))]

(***************************************************************************)
(* ObserveResponse, as a function of the store.  A response is             *)
(*   [res, status, directive, tailCall, tailFunction, result, errType,     *)
(*    errMessage, httpRes, code, err]                                      *)
(* res: res != nil; directive: "Exit", "Poll" or "None" (res.Directive);   *)
(* tailCall: d.Exit.TailCall != nil; result: d.Exit.Result and its Error   *)
(* are non-nil; httpRes: httpRes != nil; err: the error, NoError for nil.  *)
(***************************************************************************)

ResetNodeKeepsChildren(n) ==
    [NodeWithFunction(n.function) EXCEPT !.children = n.children,
                                         !.orderedChildren = n.orderedChildren]

\* node{function: n.function}
ResetNode(n) == NodeWithFunction(n.function)

\* the switch on res.Status
ApplyStatusNoReset(n, status) ==
    CASE status = STATUS_OK -> n
      [] OTHER -> [n EXCEPT !.failures = @ + 1]

ApplyStatus(n, status) ==
    CASE status = STATUS_OK -> n
      [] status = STATUS_INCOMPATIBLE_STATE -> ResetNode(n)
      [] OTHER -> [n EXCEPT !.failures = @ + 1]

\* the error of a non-success Exit that carries a typed error
ExitError(r) ==
    IF r.errMessage = "" THEN <<r.errType>> ELSE <<r.errType, ": ", r.errMessage>>

\* case *sdkv1.RunResponse_Exit
ApplyExitKeepsNode(n, r) ==
    [n EXCEPT !.status = r.status, !.done = terminalStatus(r.status)]

ApplyExit(n, r) ==
    LET n1 == [n EXCEPT !.status = r.status, !.done = terminalStatus(r.status)]
    IN  IF r.tailCall
        THEN NodeWithFunction(r.tailFunction)
        ELSE IF r.status # STATUS_OK /\ r.result /\ r.errType # ""
        THEN [n1 EXCEPT !.error = ExitError(r)]
        ELSE n1

\* the switch on res.Directive
ApplyDirectiveAlwaysExit(n, r) == ApplyExit(n, r)

ApplyDirective(n, r) ==
    IF r.directive = "Exit" THEN ApplyExit(n, r) ELSE n

\* the httpRes != nil branch
ApplyHTTP(n, code) ==
    [n EXCEPT !.failures = @ + 1,
              !.error = <<"unexpected HTTP status code ">> \o Itoa(code),
              !.done = terminalHTTPStatusCode(code)]

\* the err != nil branch
ApplyErr(n, err) == [n EXCEPT !.failures = @ + 1, !.error = err]

\* if n.done && n.doneTime.IsZero()
SetDoneTime(n, clock) ==
    IF n.done /\ n.doneTime = 0 THEN [n EXCEPT !.doneTime = clock] ELSE n

\* the node ObserveResponse computes from the one it found
ResponseNodeKeepsRunning(n, r, clock) ==
    LET n1 == [n EXCEPT !.responses = @ + 1, !.error = NoError,
                        !.status = STATUS_UNSPECIFIED]
        n2 == IF r.res THEN ApplyDirective(ApplyStatus(n1, r.status), r)
              ELSE IF r.httpRes THEN ApplyHTTP(n1, r.code)
              ELSE IF r.err # NoError THEN ApplyErr(n1, r.err)
              ELSE n1
    IN  SetDoneTime(n2, clock)

ResponseNode(n, r, clock) ==
    LET n1 == [n EXCEPT !.responses = @ + 1, !.error = NoError,
                        !.status = STATUS_UNSPECIFIED, !.running = FALSE]
        n2 == IF r.res THEN ApplyDirective(ApplyStatus(n1, r.status), r)
              ELSE IF r.httpRes THEN ApplyHTTP(n1, r.code)
              ELSE IF r.err # NoError THEN ApplyErr(n1, r.err)
              ELSE n1
    IN  SetDoneTime(n2, clock)

\* t.nodes[id] = n: a write to a nil map panics
StoreNode(t, id, n) ==
    IF t.allocated
    THEN [t EXCEPT !.nodes = Put(@, id, n)]
    ELSE [t EXCEPT !.panicked = "assignment to entry in nil map"]

ObserveResponseOp(t, id, r, clock) ==
    StoreNode(t, id, ResponseNode(Lookup(t.nodes, id), r, clock))


(***************************************************************************)
(* One row of the table, as buildRows derives it from a node at time       *)
(* `clock`.  isLast holds the "is the last child" flag of every level of   *)
(* the path to the node.  The styles are kept beside the texts they are    *)
(* rendered with; `id` is history (a row of the program holds no id).      *)
(***************************************************************************)
TreePrefix(isLast) ==
    [i \in 1..Len(isLast) |->
        IF i = Len(isLast)
        THEN (IF isLast[i] THEN "+-" ELSE "|-")
        ELSE (IF isLast[i] THEN "  " ELSE "| ")]

\* the expiration check of the renderer
Expired(n, clock) == ~n.done /\ n.expirationTime # 0 /\ n.expirationTime < clock

\* the local copy of the node the renderer works on
RenderNode(n, clock) ==
    IF Expired(n, clock)
    THEN [n EXCEPT !.error = <<"Expired">>, !.done = TRUE, !.doneTime = n.expirationTime]
    ELSE n

Pending(n, clock) == ~n.done /\ ~Expired(n, clock)

FunctionStyle(n, clock) ==
    IF n.done THEN (IF n.status = STATUS_OK THEN "ok" ELSE "error")
    ELSE IF Expired(n, clock) THEN "error"
    ELSE IF n.failures > 0 THEN "retry" ELSE "pending"

StatusText(n, clock) ==
    LET m == RenderNode(n, clock)
    IN  IF m.running THEN <<"Running">>
        ELSE IF m.error # NoError THEN m.error
        ELSE IF m.status # STATUS_UNSPECIFIED THEN statusString(m.status)
        ELSE IF Pending(n, clock) /\ m.responses > 0 THEN <<"Suspended">>
        ELSE <<"Pending">>

StatusStyle(n, clock) ==
    LET m == RenderNode(n, clock)
    IN  IF m.running THEN "pending"
        ELSE IF m.error = NoError /\ m.status = STATUS_UNSPECIFIED
                /\ Pending(n, clock) /\ m.responses > 0 THEN "pending"
        ELSE FunctionStyle(n, clock)

Max(a, b) == IF a > b THEN a ELSE b

AttemptsUnclamped(n, clock) ==
    LET m == RenderNode(n, clock)
        extra == IF m.running THEN 1
                 ELSE IF m.done /\ m.status = STATUS_OK THEN 1
                 ELSE IF m.responses > m.failures THEN 1
                 ELSE 0
    IN  m.failures + extra

Attempts(n, clock) ==
    LET m == RenderNode(n, clock)
        extra == IF m.running THEN 1
                 ELSE IF m.done /\ m.status = STATUS_OK THEN 1
                 ELSE IF m.responses > m.failures THEN 1
                 ELSE 0
    IN  Max(m.failures + extra, 1)

Elapsed(n, clock) ==
    LET m == RenderNode(n, clock)
    IN  IF m.creationTime # 0
        THEN (IF ~m.done THEN clock ELSE m.doneTime) - m.creationTime
        ELSE 0

FunctionName(n) == IF n.function # "" THEN n.function ELSE "(?)"

Row(id, n, isLast, clock) ==
    [ id |-> id,
      spinner |-> Pending(n, clock),
      attempts |-> Attempts(n, clock),
      elapsed |-> Elapsed(n, clock),
      prefix |-> TreePrefix(isLast),
      function |-> FunctionName(n),
      functionStyle |-> FunctionStyle(n, clock),
      status |-> StatusText(n, clock),
      statusStyle |-> StatusStyle(n, clock) ]

(***************************************************************************)
(* History variables.                                                      *)
(***************************************************************************)
NoResponse ==
    [ res |-> FALSE, status |-> STATUS_UNSPECIFIED, directive |-> "None",
      tailCall |-> FALSE, tailFunction |-> "", result |-> FALSE, errType |-> "",
      errMessage |-> "", httpRes |-> FALSE, code |-> 0, err |-> NoError ]

NoRequest ==
    [ rootID |-> "", parentID |-> "", id |-> "", function |-> "",
      creationTime |-> 0, expirationTime |-> 0 ]

NoEvent ==
    [ op |-> "None", req |-> NoRequest, resp |-> NoResponse, id |-> "",
      existed |-> FALSE, parentExisted |-> FALSE, found |-> ZeroNode, at |-> 0 ]

NoMark == <<>>

NoLinks == [x \in {} |-> TRUE]

\* the response resets the node: a stale-state outcome, or an Exit with a tail call
IsReset(r) ==
    r.res /\ (r.status = STATUS_INCOMPATIBLE_STATE \/ (r.directive = "Exit" /\ r.tailCall))

Triple(req) == <<req.rootID, req.parentID, req.id>>

(***************************************************************************)
(* The store's calls as atomic actions: each takes t.mu on entry and       *)
(* releases it on return (defer), so it runs when the lock is free and     *)
(* nothing of it is seen by another party.  A panic ends the process.      *)
(***************************************************************************)
Running == panicked = ""

Idle == Running /\ mu = "" /\ \A p \in DOMAIN inflight : inflight[p].op = "None"

SetStore(t) ==
    /\ allocated' = t.allocated
    /\ roots' = t.roots
    /\ orderedRoots' = t.orderedRoots
    /\ nodes' = t.nodes
    /\ panicked' = t.panicked

ObserveRequestEffect(req, mark) ==
    /\ SetStore(ObserveRequestOp(TUI, req, now))
    /\ last' = [ op |-> "ObserveRequest", req |-> req, resp |-> NoResponse,
                 id |-> req.id, existed |-> req.id \in DOMAIN nodes,
                 parentExisted |-> req.parentID \in DOMAIN nodes,
                 found |-> Lookup(nodes, req.id),
                 at |-> now ]
    /\ marked' = IF mark THEN <<Triple(req)>>
                  ELSE IF marked # NoMark /\ marked[1] = Triple(req)
                  THEN <<Triple(req), "again">>
                  ELSE marked
    /\ linked' = [x \in (DOMAIN linked) \cup {req.id} |->
                     IF x = req.id THEN TRUE ELSE linked[x]]

ObserveRequest(req, mark) ==
    /\ Idle
    /\ ObserveRequestEffect(req, mark)
    /\ UNCHANGED <<logs, mu, now, inflight, renderVars, ready, activeTab, loopVars>>

ObserveResponseEffect(id, r) ==
    /\ SetStore(ObserveResponseOp(TUI, id, r, now))
    /\ last' = [ op |-> "ObserveResponse", req |-> NoRequest, resp |-> r,
                 id |-> id, existed |-> id \in DOMAIN nodes,
                 parentExisted |-> FALSE,
                 found |-> Lookup(nodes, id),
                 at |-> now ]
    /\ marked' = NoMark
    /\ linked' = IF IsReset(r)
                  THEN [x \in DOMAIN linked |->
                           linked[x] /\ x \notin Lookup(nodes, id).children]
                  ELSE linked

ObserveResponse(id, r) ==
    /\ Idle
    /\ Lookup(nodes, id).responses < MaxResponses
    /\ ObserveResponseEffect(id, r)
    /\ UNCHANGED <<logs, mu, now, inflight, renderVars, ready, activeTab, loopVars>>

\* time passes
Tick ==
    /\ Running
    /\ now < MaxTime
    /\ now' = now + 1
    /\ UNCHANGED <<storeVars, logs, panicked, mu, inflight, renderVars, ready,
                   activeTab, last, marked, linked, loopVars>>


(***************************************************************************)
(* The state after construction: a zero TUI (nil maps, empty log buffer,   *)
(* free lock) on which tea has run TUI.Init.                               *)
(***************************************************************************)
Producers == {"p1", "p2"}
Parties == Producers \cup {"ui"}

NoCall == [ op |-> "None", req |-> NoRequest, resp |-> NoResponse, id |-> "", at |-> 0 ]

Init ==
    /\ allocated = FALSE
    /\ roots = {}
    /\ orderedRoots = <<>>
    /\ nodes = EmptyMap
    /\ logs = 0
    /\ panicked = ""
    /\ mu = ""
    /\ now = 1
    /\ inflight = [p \in Parties |-> NoCall]
    /\ stack = <<>>
    /\ rows = <<>>
    /\ blocks = <<>>
    /\ rootIndex = 0
    /\ ready = FALSE
    /\ activeTab = "functionsTab"
    /\ tail = TRUE
    /\ ticks = 0
    /\ refresh = 1
    /\ quit = FALSE
    /\ last = NoEvent
    /\ marked = NoMark
    /\ linked = NoLinks
    /\ moved = FALSE

(***************************************************************************)
(* The inputs of the store specification: a root "r", observed with and    *)
(* without timestamps, and its child "a".  A request's creation time is    *)
(* not later than the instant it is observed at.  Responses are observed   *)
(* for "r": ObserveResponse reads and writes the node of its id alone,     *)
(* whatever the node's place in the tree.                                  *)
(***************************************************************************)
Request(rootID, parentID, id, function, creationTime, expirationTime) ==
    [ rootID |-> rootID, parentID |-> parentID, id |-> id, function |-> function,
      creationTime |-> creationTime, expirationTime |-> expirationTime ]

Exit(status) == [NoResponse EXCEPT !.res = TRUE, !.status = status, !.directive = "Exit"]
ExitTailCall(status, function) ==
    [Exit(status) EXCEPT !.tailCall = TRUE, !.tailFunction = function]
ExitWithError(status, errType, errMessage) ==
    [Exit(status) EXCEPT !.result = TRUE, !.errType = errType, !.errMessage = errMessage]
Poll(status) == [NoResponse EXCEPT !.res = TRUE, !.status = status, !.directive = "Poll"]
HTTPOnly(code) == [NoResponse EXCEPT !.httpRes = TRUE, !.code = code]
ErrOnly(err) == [NoResponse EXCEPT !.err = err]

StoreRequests ==
    { Request("r", "", "r", "f", ct, et) : ct \in {0, 1, 2}, et \in {0, 1} }
        \cup { Request("r", "r", "a", "f", 0, 0) }

StoreResponses ==
    { Exit(STATUS_OK), Exit(STATUS_TIMEOUT), Exit(STATUS_INCOMPATIBLE_STATE),
      ExitWithError(STATUS_PERMANENT_ERROR, "E", "m"),
      ExitTailCall(STATUS_OK, "g"), ExitTailCall(STATUS_INCOMPATIBLE_STATE, "g"),
      ExitTailCall(STATUS_TIMEOUT, "g"),
      Poll(STATUS_OK), Poll(STATUS_INCOMPATIBLE_STATE),
      HTTPOnly(500), HTTPOnly(404), ErrOnly(<<"EOF">>) }

\* the requests that can be observed now
Created(reqs) == { req \in reqs : req.creationTime <= now }

Next ==
    \/ \E req \in Created(StoreRequests) : ObserveRequest(req, FALSE)
    \/ \E r \in StoreResponses : ObserveResponse("r", r)
    \/ Tick

Spec == Init /\ [][Next]_vars


(***************************************************************************)
(* The tree specification: the chain r -> a -> b -> c observed in any      *)
(* order and any number of times, with requests that name a second root,   *)
(* a parent that is the id itself and a parent that is an unseen root.     *)
(* The responses are the ones that change the shape of the forest, the     *)
(* stale-state reset and the tail call, observed for "a", the node that    *)
(* gets two children.  No time passes.  A request may be marked when it is *)
(* observed; the mark lasts until a response is observed.                  *)
(***************************************************************************)

TreeShapes ==
    { <<"r", "", "r">>, <<"r", "r", "a">>, <<"r", "a", "b">>, <<"r", "b", "c">>,
      <<"a", "", "a">>, <<"c", "c", "b">>, <<"r", "a", "a">> }

TreeRequests == { Request(s[1], s[2], s[3], "f", 0, 0) : s \in TreeShapes }

TreeResponses == { Exit(STATUS_INCOMPATIBLE_STATE), ExitTailCall(STATUS_OK, "f") }

NextTree ==
    \/ \E req \in TreeRequests, mark \in BOOLEAN : ObserveRequest(req, mark)
    \/ \E r \in TreeResponses : ObserveResponse("a", r)

SpecTree == Init /\ [][NextTree]_vars

(***************************************************************************)
(* The classification specification: one call "r", and responses of every  *)
(* kind: an Exit with every status code (a value outside the enumeration   *)
(* included), Polls, transport failures with status codes on both sides of *)
(* every boundary of the classification, a bare error, and responses that  *)
(* carry a structured response together with a transport status and an     *)
(* error.  No time passes.                                                 *)
(***************************************************************************)
Unrecognised == "99"

HTTPCodes == { 100, 200, 399, 400, 404, 408, 429, 499, 500, 501, 503, 599, 600 }

WithTransport(r, code, err) == [r EXCEPT !.httpRes = TRUE, !.code = code, !.err = err]

ClassifyRequests == { Request("r", "", "r", "f", 0, 0) }

ClassifyResponses ==
    { Exit(status) : status \in Statuses \cup {Unrecognised} }
        \cup { Poll(STATUS_OK), Poll(STATUS_TIMEOUT), ExitTailCall(STATUS_OK, "g") }
        \cup { HTTPOnly(code) : code \in HTTPCodes }
        \cup { ErrOnly(<<"EOF">>), [HTTPOnly(404) EXCEPT !.err = <<"EOF">>] }
        \cup { WithTransport(r, 500, <<"EOF">>) :
                 r \in { Exit(STATUS_OK), Exit(STATUS_TIMEOUT), Poll(STATUS_OK) } }

NextClassify ==
    \/ \E req \in ClassifyRequests : ObserveRequest(req, FALSE)
    \/ \E r \in ClassifyResponses : ObserveResponse("r", r)

SpecClassify == Init /\ [][NextClassify]_vars

(***************************************************************************)
(* The calls as the parties make them.  A producer's call takes t.mu on    *)
(* entry (Lock blocks until the lock is free) and does its work and        *)
(* releases the lock when it returns; between the two the party is inside  *)
(* the call.  The consumer is the event loop: it handles one message with  *)
(* Update or renders with View, one at a time.                             *)
(***************************************************************************)
\* party p is not inside a call; the event loop makes no call once it has ended
Free(p) == Running /\ inflight[p].op = "None" /\ (p = "ui" => ~quit)

\* a call and its arguments; `at` is the time.Now() View passes to functionCallsView
Call(op, req, resp, id) ==
    [ op |-> op, req |-> req, resp |-> resp, id |-> id,
      at |-> IF op = "functionCallsView" THEN now ELSE 0 ]

\* t.mu.Lock() on entry to the call `c` of party p
Enter(p, c) ==
    /\ Free(p)
    /\ mu = ""
    /\ mu' = p
    /\ inflight' = [inflight EXCEPT ![p] = c]

\* the deferred t.mu.Unlock() and the return of party p
Leave(p) ==
    /\ mu' = ""
    /\ inflight' = [inflight EXCEPT ![p] = NoCall]

Inside(p, op) == Running /\ inflight[p].op = op /\ mu = p

BeginObserveRequest(p, req) ==
    /\ Enter(p, Call("ObserveRequest", req, NoResponse, req.id))
    /\ UNCHANGED <<storeVars, logs, panicked, now, renderVars, ready, activeTab,
                   last, marked, linked, loopVars>>

EndObserveRequest(p) ==
    /\ Inside(p, "ObserveRequest")
    /\ ObserveRequestEffect(inflight[p].req, FALSE)
    /\ Leave(p)
    /\ UNCHANGED <<logs, now, renderVars, ready, activeTab, loopVars>>

BeginObserveResponse(p, id, r) ==
    /\ Lookup(nodes, id).responses < MaxResponses
    /\ Enter(p, Call("ObserveResponse", NoRequest, r, id))
    /\ UNCHANGED <<storeVars, logs, panicked, now, renderVars, ready, activeTab,
                   last, marked, linked, loopVars>>

EndObserveResponse(p) ==
    /\ Inside(p, "ObserveResponse")
    /\ ObserveResponseEffect(inflight[p].id, inflight[p].resp)
    /\ Leave(p)
    /\ UNCHANGED <<logs, now, renderVars, ready, activeTab, loopVars>>

\* Write appends one byte to the log buffer
BeginWrite(p) ==
    /\ logs < MaxLogs
    /\ Enter(p, Call("Write", NoRequest, NoResponse, ""))
    /\ UNCHANGED <<storeVars, logs, panicked, now, renderVars, ready, activeTab,
                   last, marked, linked, loopVars>>

EndWrite(p) ==
    /\ Inside(p, "Write")
    /\ logs' = logs + 1
    /\ Leave(p)
    /\ UNCHANGED <<storeVars, panicked, now, renderVars, ready, activeTab, last, marked, linked, loopVars>>

\* Read drains the log buffer into a slice that holds it all
BeginRead(p) ==
    /\ Enter(p, Call("Read", NoRequest, NoResponse, ""))
    /\ UNCHANGED <<storeVars, logs, panicked, now, renderVars, ready, activeTab,
                   last, marked, linked, loopVars>>

EndRead(p) ==
    /\ Inside(p, "Read")
    /\ logs' = 0
    /\ Leave(p)
    /\ UNCHANGED <<storeVars, panicked, now, renderVars, ready, activeTab, last, marked, linked, loopVars>>

(***************************************************************************)
(* Update, for the messages that decide what View renders.                 *)
(***************************************************************************)
UpdateWindowSize ==
    /\ Free("ui")
    /\ ready' = TRUE
    /\ UNCHANGED <<storeVars, logs, panicked, mu, now, inflight, renderVars,
                   activeTab, last, marked, linked, loopVars>>

UpdateTabKey ==
    /\ Free("ui")
    /\ activeTab' = IF activeTab = "functionsTab" THEN "logsTab" ELSE "functionsTab"
    /\ UNCHANGED <<storeVars, logs, panicked, mu, now, inflight, renderVars,
                   ready, last, marked, linked, loopVars>>

(***************************************************************************)
(* Update, for the messages of the event loop.  tick() schedules one       *)
(* refresh tick (a tickMsg delivered after refreshInterval); TUI.Init      *)
(* schedules the first one, and delivering one takes it off the scheduled  *)
(* ones.  A key is one of the strings of the switch in Update, or any      *)
(* other key ("x").  Once Update has returned tea.Quit the loop delivers   *)
(* no message and renders no view.  The spinner and the viewport are the   *)
(* library's: their updates change none of the TUI's own fields.           *)
(***************************************************************************)
MaxTicks == 3

QuitKeys == {"ctrl+c", "q", "esc"}
MovementKeys == {"up", "down", "left", "right", "pgup", "pgdown", "ctrl+u", "ctrl+d"}
OtherKeys == {"x"}

tick(scheduled) == scheduled + 1

UpdateTickForgetsNext ==
    /\ Free("ui")
    /\ refresh >= 1
    /\ ticks < MaxTicks
    /\ ticks' = ticks + 1
    /\ refresh' = refresh - 1
    /\ UNCHANGED <<storeVars, logs, panicked, mu, now, inflight, renderVars,
                   ready, activeTab, tail, quit, last, marked, linked, moved>>

UpdateTick ==
    /\ Free("ui")
    /\ refresh >= 1
    /\ ticks < MaxTicks
    /\ ticks' = ticks + 1
    /\ refresh' = tick(refresh - 1)
    /\ UNCHANGED <<storeVars, logs, panicked, mu, now, inflight, renderVars,
                   ready, activeTab, tail, quit, last, marked, linked, moved>>

UpdateSpinnerTick ==
    /\ Free("ui")
    /\ UNCHANGED vars

UpdateQuitKey(key) ==
    /\ Free("ui")
    /\ key \in QuitKeys
    /\ quit' = TRUE
    /\ UNCHANGED <<storeVars, logs, panicked, mu, now, inflight, renderVars,
                   ready, activeTab, tail, ticks, refresh, last, marked, linked, moved>>

UpdateTailKey ==
    /\ Free("ui")
    /\ tail' = TRUE
    /\ moved' = FALSE
    /\ UNCHANGED <<storeVars, logs, panicked, mu, now, inflight, renderVars,
                   ready, activeTab, ticks, refresh, quit, last, marked, linked>>

UpdateMovementKeyButPaging(key) ==
    /\ Free("ui")
    /\ key \in MovementKeys
    /\ tail' = IF key \in {"pgup", "pgdown"} THEN tail ELSE FALSE
    /\ moved' = TRUE
    /\ UNCHANGED <<storeVars, logs, panicked, mu, now, inflight, renderVars,
                   ready, activeTab, ticks, refresh, quit, last, marked, linked>>

UpdateMovementKey(key) ==
    /\ Free("ui")
    /\ key \in MovementKeys
    /\ tail' = FALSE
    /\ moved' = TRUE
    /\ UNCHANGED <<storeVars, logs, panicked, mu, now, inflight, renderVars,
                   ready, activeTab, ticks, refresh, quit, last, marked, linked>>

UpdateOtherKey(key) ==
    /\ Free("ui")
    /\ key \in OtherKeys
    /\ UNCHANGED vars

(***************************************************************************)
(* View on the logs tab: t.logs.String(), with no lock taken.              *)
(***************************************************************************)
BeginViewLogs ==
    /\ Free("ui")
    /\ ready
    /\ activeTab = "logsTab"
    /\ inflight' = [inflight EXCEPT !["ui"] = Call("logs.String", NoRequest, NoResponse, "")]
    /\ UNCHANGED <<storeVars, logs, panicked, mu, now, renderVars, ready, activeTab,
                   last, marked, linked, loopVars>>

EndViewLogs ==
    /\ Running
    /\ inflight["ui"].op = "logs.String"
    /\ inflight' = [inflight EXCEPT !["ui"] = NoCall]
    /\ UNCHANGED <<storeVars, logs, panicked, mu, now, renderVars, ready, activeTab,
                   last, marked, linked, loopVars>>

(***************************************************************************)
(* View on the functions tab: functionCallsView, which holds the lock from *)
(* its entry to its return, and buildRows, one call or return per step.    *)
(* A frame of the stack is a call of buildRows: the id, the isLast flags   *)
(* and the index of the next child to visit.  The Go runtime ends the      *)
(* process when the stack outgrows its limit; the model's limit is two     *)
(* frames more than there are ids, which only a path that repeats an id    *)
(* reaches.  buildRows works on a copy of the node (n := t.nodes[id]): what *)
(* it sets on an expired node stays in the copy, and the node map is the   *)
(* same after the call as before.                                          *)
(***************************************************************************)
RenderIds == {"r", "a"}

StackLimit == Cardinality(RenderIds) + 2

Frame(id, isLast) == [ id |-> id, isLast |-> isLast, next |-> 1 ]

\* the instant the render in progress was called with
RenderTime == inflight["ui"].at

\* the node map after buildRows has derived the row of id
BuildRowsWritesBack(m, id, clock) == Put(m, id, RenderNode(Lookup(m, id), clock))

BuildRowsNodes(m, id, clock) == m

\* entering buildRows(now, id, isLast, rows): the row is added, the children follow
CallBuildRows(id, isLast) ==
    IF Len(stack) >= StackLimit
    THEN /\ panicked' = "stack overflow"
         /\ UNCHANGED <<stack, rows, nodes>>
    ELSE /\ rows' = Append(rows, Row(id, Lookup(nodes, id), isLast, RenderTime))
         /\ stack' = Append(stack, Frame(id, isLast))
         /\ nodes' = BuildRowsNodes(nodes, id, RenderTime)
         /\ UNCHANGED panicked

BeginFunctionCallsView ==
    /\ ready
    /\ activeTab = "functionsTab"
    /\ Enter("ui", Call("functionCallsView", NoRequest, NoResponse, ""))
    /\ stack' = <<>>
    /\ rows' = <<>>
    /\ blocks' = <<>>
    /\ rootIndex' = 1
    /\ UNCHANGED <<storeVars, logs, panicked, now, ready, activeTab, last, marked, linked, loopVars>>

\* for i, rootID := range t.orderedRoots: t.buildRows(now, rootID, nil, &rows)
RenderRoot ==
    /\ Inside("ui", "functionCallsView")
    /\ stack = <<>>
    /\ Cardinality(roots) # 0
    /\ rootIndex <= Len(orderedRoots)
    /\ CallBuildRows(orderedRoots[rootIndex], <<>>)
    /\ UNCHANGED <<allocated, roots, orderedRoots, logs, mu, now, inflight, blocks,
                   rootIndex, ready, activeTab, last, marked, linked, loopVars>>

\* for i, id := range n.orderedChildren: t.buildRows(now, id, append(isLast, last), rows)
RenderChild ==
    /\ Inside("ui", "functionCallsView")
    /\ stack # <<>>
    /\ LET top == stack[Len(stack)]
           kids == Lookup(nodes, top.id).orderedChildren
           id == kids[top.next]
           isLast == Append(top.isLast, top.next = Len(kids))
       IN  /\ top.next <= Len(kids)
           /\ IF Len(stack) >= StackLimit
              THEN /\ panicked' = "stack overflow"
                   /\ UNCHANGED <<stack, rows, nodes>>
              ELSE /\ rows' = Append(rows, Row(id, Lookup(nodes, id), isLast, RenderTime))
                   /\ stack' = Append([stack EXCEPT ![Len(stack)].next = @ + 1],
                                      Frame(id, isLast))
                   /\ nodes' = BuildRowsNodes(nodes, id, RenderTime)
                   /\ UNCHANGED panicked
    /\ UNCHANGED <<allocated, roots, orderedRoots, logs, mu, now, inflight, blocks,
                   rootIndex, ready, activeTab, last, marked, linked, loopVars>>

\* buildRows returns; when the root's call returns its table is rendered and
\* the row buffer reset
RenderReturnKeepsRows ==
    /\ Inside("ui", "functionCallsView")
    /\ stack # <<>>
    /\ LET top == stack[Len(stack)]
       IN  top.next > Len(Lookup(nodes, top.id).orderedChildren)
    /\ stack' = SubSeq(stack, 1, Len(stack) - 1)
    /\ IF Len(stack) = 1
       THEN /\ blocks' = Append(blocks, rows)
            /\ rootIndex' = rootIndex + 1
            /\ UNCHANGED rows
       ELSE UNCHANGED <<blocks, rows, rootIndex>>
    /\ UNCHANGED <<storeVars, logs, panicked, mu, now, inflight, ready, activeTab,
                   last, marked, linked, loopVars>>

RenderReturn ==
    /\ Inside("ui", "functionCallsView")
    /\ stack # <<>>
    /\ LET top == stack[Len(stack)]
       IN  top.next > Len(Lookup(nodes, top.id).orderedChildren)
    /\ stack' = SubSeq(stack, 1, Len(stack) - 1)
    /\ IF Len(stack) = 1
       THEN /\ blocks' = Append(blocks, rows)
            /\ rows' = <<>>
            /\ rootIndex' = rootIndex + 1
       ELSE UNCHANGED <<blocks, rows, rootIndex>>
    /\ UNCHANGED <<storeVars, logs, panicked, mu, now, inflight, ready, activeTab,
                   last, marked, linked, loopVars>>

\* functionCallsView returns: at once when there are no roots, else after the last root
EndFunctionCallsView ==
    /\ Inside("ui", "functionCallsView")
    /\ stack = <<>>
    /\ Cardinality(roots) = 0 \/ rootIndex > Len(orderedRoots)
    /\ Leave("ui")
    /\ UNCHANGED <<storeVars, logs, panicked, now, renderVars, ready, activeTab,
                   last, marked, linked, loopVars>>

(***************************************************************************)
(* The specification of the parties: two producers and the event loop,     *)
(* over a root "r" and its child "a", which is also observed as its own    *)
(* parent.                                                                 *)
(***************************************************************************)
UIRequests ==
    { Request(s[1], s[2], s[3], "f", 0, 0) :
        s \in { <<"r", "", "r">>, <<"r", "r", "a">>, <<"r", "a", "a">> } }

UIResponses == { Exit(STATUS_OK) }

NextUI ==
    \/ \E p \in Producers, req \in UIRequests : BeginObserveRequest(p, req)
    \/ \E p \in Producers : EndObserveRequest(p)
    \/ \E p \in Producers, r \in UIResponses : BeginObserveResponse(p, "r", r)
    \/ \E p \in Producers : EndObserveResponse(p)
    \/ \E p \in Producers : BeginWrite(p)
    \/ \E p \in Producers : EndWrite(p)
    \/ \E p \in Producers : BeginRead(p)
    \/ \E p \in Producers : EndRead(p)
    \/ UpdateWindowSize
    \/ UpdateTabKey
    \/ BeginViewLogs
    \/ EndViewLogs
    \/ BeginFunctionCallsView
    \/ RenderRoot
    \/ RenderChild
    \/ RenderReturn
    \/ EndFunctionCallsView

SpecUI == Init /\ [][NextUI]_vars

(***************************************************************************)
(* The view specification: the store's calls, the passing of time and the  *)
(* event loop rendering the functions tab, over a root "r" observed with   *)
(* and without a creation time and a deadline, and its child "a".  The     *)
(* store's calls wait for the lock a render holds; what the last render    *)
(* emitted stays on screen (in `blocks`) until the next one.               *)
(***************************************************************************)
ViewRequests ==
    { Request("r", "", "r", "f", ct, et) : ct \in {0, 1}, et \in {0, 1} }
        \cup { Request("r", "r", "a", "g", 0, 0) }

ViewResponses == { Exit(STATUS_OK), Poll(STATUS_OK) }

NextView ==
    \/ \E req \in Created(ViewRequests) : ObserveRequest(req, FALSE)
    \/ \E r \in ViewResponses : ObserveResponse("r", r)
    \/ Tick
    \/ UpdateWindowSize
    \/ BeginFunctionCallsView
    \/ RenderRoot
    \/ RenderChild
    \/ RenderReturn
    \/ EndFunctionCallsView

SpecView == Init /\ [][NextView]_vars

(***************************************************************************)
(* The forest specification: requests that build two trees, the chain      *)
(* r -> a -> b -> c with a second child d of r, and the root s, observed   *)
(* in any order and any number of times, and the event loop rendering the  *)
(* functions tab.  A request observed before its parent's ends the process.*)
(***************************************************************************)
ForestShapes ==
    { <<"r", "", "r">>, <<"r", "r", "a">>, <<"r", "a", "b">>, <<"r", "b", "c">>,
      <<"r", "r", "d">>, <<"s", "", "s">> }

ForestRequests == { Request(s[1], s[2], s[3], "f", 0, 0) : s \in ForestShapes }

NextForest ==
    \/ \E req \in ForestRequests : ObserveRequest(req, FALSE)
    \/ UpdateWindowSize
    \/ BeginFunctionCallsView
    \/ RenderRoot
    \/ RenderChild
    \/ RenderReturn
    \/ EndFunctionCallsView

SpecForest == Init /\ [][NextForest]_vars

(***************************************************************************)
(* The calls specification: well-formed input (every id always with the    *)
(* same root and parent, no parent only for a root, a request observed     *)
(* only after its parent's) for the trees r -> a -> b and s, responses     *)
(* that reset r and responses that complete or reset a, in any             *)
(* interleaving, and the event loop rendering the functions tab.           *)
(***************************************************************************)
CallShapes == { <<"r", "", "r">>, <<"r", "r", "a">>, <<"r", "a", "b">>, <<"s", "", "s">> }

CallRequests == { Request(s[1], s[2], s[3], "f", 0, 0) : s \in CallShapes }

CallResets == { Exit(STATUS_INCOMPATIBLE_STATE), ExitTailCall(STATUS_OK, "f") }

CallResponses == CallResets \cup { Exit(STATUS_OK) }

\* the parent's request was observed before
ParentObserved(req) == req.parentID = "" \/ req.parentID \in DOMAIN linked

NextCalls ==
    \/ \E req \in CallRequests : ParentObserved(req) /\ ObserveRequest(req, FALSE)
    \/ \E r \in CallResets : ObserveResponse("r", r)
    \/ \E r \in CallResponses : ObserveResponse("a", r)
    \/ UpdateWindowSize
    \/ BeginFunctionCallsView
    \/ RenderRoot
    \/ RenderChild
    \/ RenderReturn
    \/ EndFunctionCallsView

SpecCalls == Init /\ [][NextCalls]_vars

(***************************************************************************)
(* The event-loop specification: every message Update handles (refresh and *)
(* spinner ticks, resizes, and the keys), the views of both tabs, and a    *)
(* producer observing the request of a root.                               *)
(***************************************************************************)
LoopRequests == { Request("r", "", "r", "f", 0, 0) }

NextLoop ==
    \/ UpdateTick
    \/ UpdateSpinnerTick
    \/ UpdateWindowSize
    \/ UpdateTabKey
    \/ UpdateTailKey
    \/ \E key \in MovementKeys : UpdateMovementKey(key)
    \/ \E key \in OtherKeys : UpdateOtherKey(key)
    \/ \E key \in QuitKeys : UpdateQuitKey(key)
    \/ \E req \in LoopRequests : ObserveRequest(req, FALSE)
    \/ BeginViewLogs
    \/ EndViewLogs
    \/ BeginFunctionCallsView
    \/ RenderRoot
    \/ RenderReturn
    \/ EndFunctionCallsView

SpecLoop == Init /\ [][NextLoop]_vars

(***************************************************************************)
(* What the last event was.                                                *)
(***************************************************************************)
Responded == last.op = "ObserveResponse"
Requested == last.op = "ObserveRequest"

\* the last event was a response for id that resets its node
ResetOf(id) == Responded /\ last.id = id /\ IsReset(last.resp)

\* the node of the last event, as stored now
Stored == Lookup(nodes, last.id)

(***************************************************************************)
(* C1.  Once a stored node's done flag is true no later event makes it     *)
(* false, except an ObserveResponse that resets the node (a stale-state    *)
(* outcome, or an Exit directive with a tail call).                        *)
(***************************************************************************)
C1_DoneMonotonic ==
    [][\A id \in DOMAIN nodes :
          (nodes[id].done /\ ~(ResetOf(id))') => Lookup(nodes', id).done]_vars

(***************************************************************************)
(* C5.  ObserveResponse for an id that has no node never fails, a freshly  *)
(* constructed store included, and leaves a node for that id with an empty *)
(* function, responses = 1 and running = false.                            *)
(***************************************************************************)
C5_ResponseToUnseenId ==
    (Responded /\ ~last.existed) =>
        /\ panicked = ""
        /\ last.id \in DOMAIN nodes
        /\ Stored.function = ""
        /\ Stored.responses = 1
        /\ ~Stored.running


(***************************************************************************)
(* C9.  After an ObserveResponse on node X with the stale-state outcome,   *)
(* whatever the directive, X is stored with zero failures and responses,   *)
(* not running, not done, unset times, no children and the function name   *)
(* it had, and a render shows that function name with attempts 1.          *)
(* C9_StaleStateKeepsFunction is the claim as stated;                      *)
(* C9_StaleStateReset is the claim with the function name an Exit's tail   *)
(* call installs.                                                          *)
(***************************************************************************)
StaleStateObserved ==
    Responded /\ panicked = "" /\ last.resp.res
        /\ last.resp.status = STATUS_INCOMPATIBLE_STATE

C9_Cleared ==
    /\ Stored.failures = 0
    /\ Stored.responses = 0
    /\ ~Stored.running
    /\ ~Stored.done
    /\ Stored.creationTime = 0
    /\ Stored.expirationTime = 0
    /\ Stored.doneTime = 0
    /\ Stored.children = {}
    /\ Stored.orderedChildren = <<>>
    /\ Row(last.id, Stored, <<>>, now).attempts = 1

C9_StaleStateKeepsFunction ==
    StaleStateObserved =>
        /\ C9_Cleared
        /\ Stored.function = last.found.function
        /\ Row(last.id, Stored, <<>>, now).function = FunctionName(last.found)

C9_StaleStateReset ==
    StaleStateObserved =>
        LET function == IF last.resp.directive = "Exit" /\ last.resp.tailCall
                        THEN last.resp.tailFunction
                        ELSE last.found.function
        IN  /\ C9_Cleared
            /\ Stored.function = function
            /\ Row(last.id, Stored, <<>>, now).function
                 = FunctionName(NodeWithFunction(function))

C9_Witness ==
    /\ StaleStateObserved
    /\ ~last.resp.tailCall
    /\ last.found.function = "f"
    /\ last.found.failures > 0
    /\ last.found.doneTime # 0
    /\ last.found.orderedChildren # <<>>

(***************************************************************************)
(* C10.  After an ObserveResponse on node X with an Exit directive naming  *)
(* the tail call g, whatever the outcome code and X's history, X is stored *)
(* with function g, not done, zero failures and responses, no error and no *)
(* outcome code; and until the next event for X every render shows         *)
(* function g, not done: the events of other ids and the passing of time   *)
(* leave what the row shows of it unchanged.                               *)
(***************************************************************************)
TailCallObserved ==
    Responded /\ panicked = "" /\ last.resp.res
        /\ last.resp.directive = "Exit" /\ last.resp.tailCall

C10_AfterTailCall ==
    TailCallObserved =>
        /\ Stored.function = last.resp.tailFunction
        /\ ~Stored.done
        /\ Stored.failures = 0
        /\ Stored.responses = 0
        /\ Stored.error = NoError
        /\ Stored.status = STATUS_UNSPECIFIED
        /\ Row(last.id, Stored, <<>>, now).function = last.resp.tailFunction
        /\ Row(last.id, Stored, <<>>, now).spinner

C10_OtherEventsKeep ==
    \A id \in DOMAIN nodes :
        (last'.id # id \/ now' # now) =>
            /\ Lookup(nodes', id).function = nodes[id].function
            /\ Lookup(nodes', id).done = nodes[id].done
            /\ Lookup(nodes', id).expirationTime = nodes[id].expirationTime

C10_TailCall == [](C10_AfterTailCall) /\ [][C10_OtherEventsKeep]_vars

C10_Witness ==
    /\ TailCallObserved
    /\ last.resp.status = STATUS_TIMEOUT
    /\ last.found.done
    /\ last.found.failures > 0
    /\ last.found.function = "f"
    /\ Stored.function = "g"
    /\ now > last.at


(***************************************************************************)
(* C2.  The root registry and every node's child list only grow at the     *)
(* end: over every step the registry before is a prefix of the registry    *)
(* after, and every node's child list before is a prefix of its child list *)
(* after.  C2_AppendOnly is the claim as stated; C2_AppendOnlyButReset     *)
(* excepts the node an ObserveResponse resets, whose child list it empties.*)
(***************************************************************************)
IsPrefix(s, t) == Len(s) <= Len(t) /\ SubSeq(t, 1, Len(s)) = s

C2_AppendOnly ==
    [][/\ IsPrefix(orderedRoots, orderedRoots')
       /\ \A id \in DOMAIN nodes :
            IsPrefix(nodes[id].orderedChildren, Lookup(nodes', id).orderedChildren)]_vars

C2_AppendOnlyButReset ==
    [][/\ IsPrefix(orderedRoots, orderedRoots')
       /\ \A id \in DOMAIN nodes :
            IF (ResetOf(id))'
            THEN Lookup(nodes', id).orderedChildren = <<>>
            ELSE IsPrefix(nodes[id].orderedChildren,
                          Lookup(nodes', id).orderedChildren)]_vars

C2_Witness ==
    /\ ResetOf(last.id)
    /\ Len(last.found.orderedChildren) = 2
    /\ Stored.orderedChildren = <<>>
    /\ Len(orderedRoots) >= 2

(***************************************************************************)
(* C3.  The root registry holds every id of the root set exactly once and  *)
(* nothing else, however often requests naming a root are observed.        *)
(***************************************************************************)
C3_RootsOnce ==
    /\ { orderedRoots[i] : i \in 1..Len(orderedRoots) } = roots
    /\ \A i, j \in 1..Len(orderedRoots) :
          orderedRoots[i] = orderedRoots[j] => i = j

\* the whole chain r -> a -> b -> c is there and its last request is observed again
C3_Witness ==
    /\ Requested
    /\ Triple(last.req) = <<"r", "b", "c">>
    /\ last.found.running
    /\ panicked = ""
    /\ "a" \in nodes["r"].children
    /\ "b" \in nodes["a"].children
    /\ "c" \in nodes["b"].children
    /\ Len(orderedRoots) >= 2

(***************************************************************************)
(* C4.  ObserveRequest is idempotent on the shape of the forest: a request *)
(* observed again, at once or after other requests, changes neither the    *)
(* root registry nor any child list; and in every state every child list   *)
(* is free of duplicates and holds the elements of the node's child set.   *)
(***************************************************************************)
C4_ListsAreSets ==
    \A id \in DOMAIN nodes :
        LET l == nodes[id].orderedChildren
        IN  /\ { l[i] : i \in 1..Len(l) } = nodes[id].children
            /\ \A i, j \in 1..Len(l) : l[i] = l[j] => i = j

C4_ObservedAgain ==
    (marked # NoMark /\ last'.op = "ObserveRequest" /\ Triple(last'.req) = marked[1]) =>
        /\ panicked' = ""
        /\ orderedRoots' = orderedRoots
        /\ roots' = roots
        /\ DOMAIN nodes' = DOMAIN nodes
        /\ \A id \in DOMAIN nodes :
              /\ nodes'[id].orderedChildren = nodes[id].orderedChildren
              /\ nodes'[id].children = nodes[id].children

C4_Idempotent == [](C4_ListsAreSets) /\ [][C4_ObservedAgain]_vars

\* a request for b under a is observed again after a second child of a was observed
C4_Witness ==
    /\ Len(marked) = 2
    /\ marked[1] = <<"r", "a", "b">>
    /\ panicked = ""
    /\ nodes["a"].orderedChildren = <<"b", "a">>

(***************************************************************************)
(* C6.  An ObserveRequest whose parentID is non-empty, has no node in the  *)
(* store and differs from rootID aborts, and leaves no node for that       *)
(* parent and no edge from it.                                             *)
(***************************************************************************)
C6_MissingParentAborts ==
    (Requested /\ last.req.parentID # "" /\ ~last.parentExisted
        /\ last.req.parentID # last.req.rootID) =>
        /\ panicked = "not implemented"
        /\ last.req.parentID \notin DOMAIN nodes


(***************************************************************************)
(* C7.  Every read and every mutation of the forest and of the log buffer  *)
(* happens with the lock held: in no state does one party access the       *)
(* forest or the log buffer while another party is mutating it.            *)
(***************************************************************************)
\* what a call reads or writes, and whether it writes
Touches(op) ==
    CASE op \in {"ObserveRequest", "ObserveResponse", "functionCallsView"} -> "forest"
      [] op \in {"Write", "Read", "logs.String"} -> "logs"
      [] OTHER -> "nothing"

Mutates(op) == op \in {"ObserveRequest", "ObserveResponse", "Write", "Read"}

C7_ExclusiveAccess ==
    \A p, q \in Parties :
        (p # q /\ inflight[p].op # "None" /\ Mutates(inflight[q].op))
            => Touches(inflight[p].op) # Touches(inflight[q].op)

(***************************************************************************)
(* C8.  In every state that ObserveRequest and ObserveResponse calls that  *)
(* do not abort can reach, a render pass terminates.  The forest does not  *)
(* change during a pass, so a pass that terminates never holds more calls  *)
(* of buildRows than there are nodes (a longer path repeats an id, and     *)
(* then repeats it forever), and never exhausts the stack.                 *)
(***************************************************************************)
C8_RenderTerminates ==
    /\ panicked # "stack overflow"
    /\ Len(stack) <= Cardinality(DOMAIN nodes)

(***************************************************************************)
(* The row a render at the current instant derives from a stored node.     *)
(***************************************************************************)
RowOf(id) == Row(id, Lookup(nodes, id), <<>>, now)

(***************************************************************************)
(* C12.  The retry scenario.  A timeout Exit observed on the node a first  *)
(* request left (running, nothing counted, no deadline) leaves it with     *)
(* failures = 1 and done = false, rendered with status "Timeout" and       *)
(* attempts 1; a success Exit observed after a second request for that     *)
(* node leaves it done, rendered with status "OK" and attempts 2.          *)
(***************************************************************************)
C12_AfterTimeout ==
    /\ Responded /\ panicked = ""
    /\ last.resp = Exit(STATUS_TIMEOUT)
    /\ last.found.running /\ ~last.found.done
    /\ last.found.responses = 0 /\ last.found.failures = 0
    /\ last.found.expirationTime = 0

C12_AfterRetry ==
    /\ Responded /\ panicked = ""
    /\ last.resp = Exit(STATUS_OK)
    /\ last.found.running /\ ~last.found.done
    /\ last.found.responses = 1 /\ last.found.failures = 1
    /\ last.found.expirationTime = 0

C12_Retry ==
    /\ C12_AfterTimeout =>
          /\ Stored.failures = 1
          /\ ~Stored.done
          /\ RowOf(last.id).status = <<"Timeout">>
          /\ RowOf(last.id).attempts = 1
    /\ C12_AfterRetry =>
          /\ Stored.done
          /\ RowOf(last.id).status = <<"OK">>
          /\ RowOf(last.id).attempts = 2

\* the success is observed after the timeout and the second request, at a later instant
C12_Witness ==
    /\ C12_AfterRetry
    /\ Stored.failures = 1
    /\ Stored.responses = 2
    /\ Stored.doneTime = 2

(***************************************************************************)
(* C13.  A node for which a request with an expirationTime has been        *)
(* observed and no response yet, whose expirationTime is earlier than the  *)
(* render instant, renders with failure styling, no spinner, status text   *)
(* "Expired" and elapsed = expirationTime - creationTime.                  *)
(***************************************************************************)
C13_LocalExpiration ==
    \A id \in DOMAIN nodes :
        (nodes[id].expirationTime # 0 /\ nodes[id].responses = 0
            /\ ~nodes[id].done /\ nodes[id].expirationTime < now) =>
            /\ ~RowOf(id).spinner
            /\ RowOf(id).functionStyle = "error"
            /\ RowOf(id).status = <<"Expired">>
            /\ RowOf(id).elapsed = nodes[id].expirationTime - nodes[id].creationTime

(***************************************************************************)
(* C15.  For every stored node the rendered attempts value is failures,    *)
(* plus one if the node is running, plus one if it is done with a success  *)
(* outcome, plus one if responses > failures while it is neither running   *)
(* nor done with success, and at least 1; a node with zero failures, not   *)
(* running and no responses renders attempts = 1.  C15_AttemptsSum is the  *)
(* claim as stated, each increment added on its own; in C15_Attempts the   *)
(* increments are alternatives, at most one of them is added.              *)
(***************************************************************************)
One(b) == IF b THEN 1 ELSE 0

DoneWithSuccess(n) == n.done /\ n.status = STATUS_OK

C15_Floor ==
    \A id \in DOMAIN nodes :
        /\ RowOf(id).attempts >= 1
        /\ (nodes[id].failures = 0 /\ ~nodes[id].running /\ nodes[id].responses = 0)
              => RowOf(id).attempts = 1

C15_AttemptsSum ==
    /\ C15_Floor
    /\ \A id \in DOMAIN nodes :
          LET n == nodes[id]
          IN  RowOf(id).attempts =
                Max(n.failures + One(n.running) + One(DoneWithSuccess(n))
                      + One(n.responses > n.failures /\ ~n.running /\ ~DoneWithSuccess(n)),
                    1)

C15_Attempts ==
    /\ C15_Floor
    /\ \A id \in DOMAIN nodes :
          LET n == nodes[id]
          IN  RowOf(id).attempts =
                Max(n.failures + One(n.running \/ DoneWithSuccess(n)
                                       \/ n.responses > n.failures),
                    1)

\* a node that failed, then succeeded, and is running again past its deadline
C15_Witness ==
    \E id \in DOMAIN nodes :
        /\ nodes[id].running /\ DoneWithSuccess(nodes[id])
        /\ nodes[id].failures = 1
        /\ nodes[id].expirationTime # 0 /\ nodes[id].expirationTime < now
        /\ RowOf(id).attempts = 2

(***************************************************************************)
(* C18.  An ObserveResponse carrying a Poll directive changes neither the  *)
(* node's done flag nor its recorded outcome code, and does not make the   *)
(* call terminal; a node that is not done, not running, has no recorded    *)
(* error and has received a success Poll response renders "Suspended".     *)
(* C18_PollChangesNothing is the claim as stated.  C18_Poll is the claim   *)
(* with what every response does first (it clears the recorded outcome     *)
(* code), with the reset of a stale-state outcome, and with the deadline:  *)
(* a node past its expirationTime renders "Expired".                       *)
(***************************************************************************)
PollObserved ==
    Responded /\ panicked = "" /\ last.resp.res /\ last.resp.directive = "Poll"

C18_PollChangesNothing ==
    PollObserved =>
        /\ Stored.done = last.found.done
        /\ Stored.status = last.found.status
        /\ (last.resp.status = STATUS_OK /\ ~Stored.done /\ ~Stored.running
                /\ Stored.error = NoError)
              => RowOf(last.id).status = <<"Suspended">>

C18_Poll ==
    PollObserved =>
        /\ Stored.done = IF last.resp.status = STATUS_INCOMPATIBLE_STATE
                         THEN FALSE ELSE last.found.done
        /\ Stored.status = STATUS_UNSPECIFIED
        /\ (last.resp.status = STATUS_OK /\ ~Stored.done /\ ~Stored.running
                /\ Stored.error = NoError
                /\ ~(Stored.expirationTime # 0 /\ Stored.expirationTime < now))
              => RowOf(last.id).status = <<"Suspended">>

\* a success Poll after a timeout and a second request
C18_Witness ==
    /\ PollObserved
    /\ last.resp.status = STATUS_OK
    /\ last.found.status = STATUS_TIMEOUT
    /\ last.found.running
    /\ ~Stored.done
    /\ RowOf(last.id).status = <<"Suspended">>

(***************************************************************************)
(* C19.  doneTime is the observation instant of the response that made the *)
(* node done: a stored node that is done has doneTime set; doneTime is     *)
(* written only when it is unset, with the instant of the response that    *)
(* makes the node done, and changes afterwards only by a reset; the        *)
(* rendered elapsed of a done node is doneTime - creationTime and, request *)
(* creation times not exceeding their observation instants, not negative.  *)
(***************************************************************************)
C19_DoneHasTime ==
    \A id \in DOMAIN nodes : nodes[id].done => nodes[id].doneTime # 0

C19_ElapsedFrozen ==
    \A id \in DOMAIN nodes :
        (nodes[id].done /\ nodes[id].creationTime # 0) =>
            /\ RowOf(id).elapsed = nodes[id].doneTime - nodes[id].creationTime
            /\ RowOf(id).elapsed >= 0

C19_WrittenOnce ==
    \A id \in DOMAIN nodes :
        LET n == nodes[id]
            m == Lookup(nodes', id)
        IN  /\ (n.doneTime # 0 /\ ~(ResetOf(id))') => m.doneTime = n.doneTime
            /\ (n.doneTime = 0 /\ m.doneTime # 0) => (m.done /\ m.doneTime = now)
            /\ (~n.done /\ m.done) => m.doneTime = now

C19_DoneTime ==
    [](C19_DoneHasTime /\ C19_ElapsedFrozen) /\ [][C19_WrittenOnce]_vars

(***************************************************************************)
(* C14.  The classification of outcome codes is total and is the table:    *)
(* non-terminal for timeout, throttled, temporary-error, stale-state,      *)
(* DNS-, TCP-, TLS- and HTTP-error, terminal for every other code          *)
(* (success, invalid-argument, permanent-error, unauthenticated,           *)
(* permission-denied, not-found, unspecified, any unrecognised value); and *)
(* an Exit response without tail call stores exactly this value as the     *)
(* node's done flag.                                                       *)
(***************************************************************************)
C14_NonTerminal ==
    { STATUS_TIMEOUT, STATUS_THROTTLED, STATUS_TEMPORARY_ERROR,
      STATUS_INCOMPATIBLE_STATE, STATUS_DNS_ERROR, STATUS_TCP_ERROR, STATUS_TLS_ERROR,
      STATUS_HTTP_ERROR }

C14_Terminal ==
    { STATUS_OK, STATUS_INVALID_ARGUMENT, STATUS_PERMANENT_ERROR,
      STATUS_UNAUTHENTICATED, STATUS_PERMISSION_DENIED, STATUS_NOT_FOUND,
      STATUS_UNSPECIFIED, Unrecognised }

ExitObserved ==
    Responded /\ panicked = "" /\ last.resp.res
        /\ last.resp.directive = "Exit" /\ ~last.resp.tailCall

C14_Classification ==
    ExitObserved =>
        /\ Stored.done \in BOOLEAN
        /\ last.resp.status \in C14_NonTerminal => ~Stored.done
        /\ last.resp.status \in C14_Terminal => Stored.done
        /\ last.resp.status \notin C14_NonTerminal => Stored.done

\* an unrecognised code ends a call that was not done
C14_Witness ==
    /\ ExitObserved
    /\ last.resp.status = Unrecognised
    /\ last.found.running /\ ~last.found.done
    /\ Stored.done

(***************************************************************************)
(* C17.  An ObserveResponse with no structured response but a transport    *)
(* status code c adds one to failures, records a transport error and sets  *)
(* done to the classification of c: true for 4xx except 408 and 429, false *)
(* for 5xx except 501, true for any other code.  With neither but a bare   *)
(* error it adds one to failures, records the error and leaves done as it  *)
(* was.  With a structured response the transport status and the error are *)
(* ignored: the node is the one the structured response alone gives.       *)
(***************************************************************************)
C17_Terminal(c) ==
    IF c \in 400..499 THEN c \notin {408, 429}
    ELSE IF c \in 500..599 THEN c = 501
    ELSE TRUE

C17_TransportFailures ==
    (Responded /\ panicked = "") =>
        /\ (~last.resp.res /\ last.resp.httpRes) =>
              /\ Stored.failures = last.found.failures + 1
              /\ Stored.error # NoError
              /\ Stored.error # last.resp.err
              /\ Stored.done = C17_Terminal(last.resp.code)
        /\ (~last.resp.res /\ ~last.resp.httpRes /\ last.resp.err # NoError) =>
              /\ Stored.failures = last.found.failures + 1
              /\ Stored.error = last.resp.err
              /\ Stored.done = last.found.done
        /\ last.resp.res =>
              Stored = ResponseNode(last.found,
                                    [last.resp EXCEPT !.httpRes = FALSE, !.code = 0,
                                                      !.err = NoError],
                                    last.at)

\* 501 ends a call that a 500 had left open
C17_Witness ==
    /\ Responded /\ panicked = ""
    /\ last.resp = HTTPOnly(501)
    /\ last.found.failures = 1 /\ ~last.found.done
    /\ last.found.running
    /\ Stored.done /\ Stored.failures = 2

(***************************************************************************)
(* A render pass that has emitted the table of every root and has not      *)
(* returned yet, and the rows it emitted.                                  *)
(***************************************************************************)
Rendering == inflight["ui"].op = "functionCallsView"

RenderDone ==
    /\ Rendering /\ panicked = ""
    /\ stack = <<>>
    /\ roots # {}
    /\ rootIndex > Len(orderedRoots)

Emitted == UNION { { blocks[i][j] : j \in 1..Len(blocks[i]) } : i \in 1..Len(blocks) }

(***************************************************************************)
(* C11.  After ObserveRequest(root = A, id = A, function f, creation T0)   *)
(* on an empty store and before any other event, a render at any instant   *)
(* shows exactly one row, with function f, attempts 1, elapsed the render  *)
(* instant minus T0, and a status text: "Pending" in C11_PendingRow, the   *)
(* claim as stated, and "Running" in C11_RunningRow.                       *)
(***************************************************************************)
C11_FirstRequest ==
    /\ Requested /\ ~last.existed
    /\ DOMAIN nodes = {last.id}
    /\ last.req.rootID = last.id
    /\ last.req.creationTime # 0
    /\ last.req.expirationTime = 0

C11_OneRow(status) ==
    /\ Len(blocks) = 1
    /\ Len(blocks[1]) = 1
    /\ blocks[1][1].function = last.req.function
    /\ blocks[1][1].prefix = <<>>
    /\ blocks[1][1].status = status
    /\ blocks[1][1].attempts = 1
    /\ blocks[1][1].elapsed = RenderTime - last.req.creationTime

C11_PendingRow == (RenderDone /\ C11_FirstRequest) => C11_OneRow(<<"Pending">>)

C11_RunningRow == (RenderDone /\ C11_FirstRequest) => C11_OneRow(<<"Running">>)

\* the render comes an instant after the request
C11_Witness ==
    /\ RenderDone /\ C11_FirstRequest
    /\ RenderTime = last.at + 1
    /\ blocks[1][1].elapsed = 1

(***************************************************************************)
(* C20.  A render reads the store and writes nothing to it: while a render *)
(* pass is in progress roots, orderedRoots and every stored node stay as   *)
(* they are, and the node of a row rendered as expired (failure styling,   *)
(* no spinner, while the stored node is not done) is stored not done and   *)
(* without the "Expired" error.  So a success Exit observed after a node   *)
(* was rendered as expired makes the node done at the instant of the       *)
(* response, and the next render shows the outcome "OK", styled success,   *)
(* with the elapsed time (of a call with a creation time) up to the        *)
(* response.                                                               *)
(***************************************************************************)
C20_StoreUntouched == Rendering => storeVars' = storeVars

C20_ExpiredOnlyInRow ==
    Rendering =>
        \A id \in DOMAIN nodes :
            Expired(nodes[id], RenderTime) =>
                /\ ~nodes[id].done
                /\ nodes[id].error # <<"Expired">>
                /\ \A row \in Emitted :
                      row.id = id => (~row.spinner /\ row.functionStyle = "error")

C20_ResponseShown ==
    (RenderDone /\ Responded /\ last.resp = Exit(STATUS_OK) /\ last.found.doneTime = 0) =>
        /\ Stored.done /\ Stored.doneTime = last.at
        /\ \A row \in Emitted :
              row.id = last.id =>
                  /\ row.status = <<"OK">>
                  /\ row.functionStyle = "ok"
                  /\ Stored.creationTime # 0 =>
                        row.elapsed = last.at - Stored.creationTime

C20_ReadOnly ==
    [](C20_ExpiredOnlyInRow /\ C20_ResponseShown) /\ [][C20_StoreUntouched]_vars

\* on screen the call is expired; the response that has just been observed made it done
C20_Witness ==
    /\ Idle /\ Responded
    /\ last.resp = Exit(STATUS_OK)
    /\ ~last.found.done /\ ~last.found.running
    /\ last.found.expirationTime # 0 /\ last.found.expirationTime < last.at
    /\ \E row \in Emitted :
          /\ row.id = last.id
          /\ row.status = <<"Expired">>
          /\ row.functionStyle = "error"
    /\ Stored.done /\ Stored.doneTime = last.at

(***************************************************************************)
(* C16.  A render emits one table per registered root, in registration     *)
(* order, and the table of a root holds exactly one row per node of the    *)
(* depth-first pre-order walk from that root along the ordered child       *)
(* lists, in that order, and no row of another root's walk.  For the chain *)
(* r -> a -> b -> c observed in that order the table of r lists r, a, b, c.*)
(***************************************************************************)
RECURSIVE PreOrder(_, _), PreOrderFrom(_, _, _)

\* the walk of the subtrees of kids[i], kids[i+1], ...
PreOrderFrom(m, kids, i) ==
    IF i > Len(kids) THEN <<>>
    ELSE PreOrder(m, kids[i]) \o PreOrderFrom(m, kids, i + 1)

\* the depth-first pre-order walk from id
PreOrder(m, id) == <<id>> \o PreOrderFrom(m, Lookup(m, id).orderedChildren, 1)

\* the ids of the rows of a table
Ids(block) == [j \in 1..Len(block) |-> block[j].id]

C16_Chain ==
    /\ orderedRoots[1] = "r"
    /\ DOMAIN nodes = {"r", "a", "b", "c"}
    /\ nodes["r"].orderedChildren = <<"a">>
    /\ nodes["a"].orderedChildren = <<"b">>
    /\ nodes["b"].orderedChildren = <<"c">>

C16_Tables ==
    RenderDone =>
        /\ Len(blocks) = Len(orderedRoots)
        /\ \A i \in 1..Len(blocks) : Ids(blocks[i]) = PreOrder(nodes, orderedRoots[i])
        /\ C16_Chain => Ids(blocks[1]) = <<"r", "a", "b", "c">>

\* two trees, the second one branching below its root and registered first among its
\* children's requests
C16_Witness ==
    /\ RenderDone
    /\ orderedRoots = <<"s", "r">>
    /\ Ids(blocks[1]) = <<"s">>
    /\ Ids(blocks[2]) = <<"r", "d", "a", "b", "c">>

(***************************************************************************)
(* C21.  Tail-follow is on after Init; each movement key (up, down, left,  *)
(* right, pgup, pgdown, ctrl+u, ctrl+d) turns it off and "t" turns it on;  *)
(* no other message (refresh tick, spinner tick, resize, tab key, another  *)
(* key, a quit key) changes it.  It is therefore on exactly when no        *)
(* movement key was pressed since Init or since the last "t".              *)
(***************************************************************************)
C21_OnUnlessMoved == tail = ~moved

C21_OnlyKeysChangeIt == [][tail' # tail => moved' # moved]_vars

C21_TailFollow == [](C21_OnUnlessMoved) /\ C21_OnlyKeysChangeIt

\* a movement key turned tail-follow off after "t" or Init, and ticks were handled since
C21_Witness == ~tail /\ moved /\ ticks >= 1 /\ ready /\ activeTab = "logsTab"

(***************************************************************************)
(* C22.  One refresh tick is scheduled at every moment from Init on:       *)
(* handling one increments the tick counter by exactly one and schedules   *)
(* the next, and no other message schedules or cancels one.  Once a quit   *)
(* key is handled the loop has ended: no message is handled and no view    *)
(* rendered after it.                                                      *)
(***************************************************************************)
C22_OneScheduled == refresh = 1

C22_CountsByOne == [][ticks' # ticks => ticks' = ticks + 1]_vars

C22_QuitEnds ==
    [][quit => /\ quit'
               /\ UNCHANGED <<ticks, refresh, tail, ready, activeTab, renderVars>>
               /\ inflight'["ui"] = inflight["ui"]]_vars

C22_RefreshTicks == [](C22_OneScheduled) /\ C22_CountsByOne /\ C22_QuitEnds

\* a quit key was handled after refresh ticks, while a request has been observed
C22_Witness == quit /\ ticks >= 2 /\ refresh = 1 /\ "r" \in DOMAIN nodes

(***************************************************************************)
(* C24.  An ObserveRequest that fails for a missing parent (parentID is    *)
(* not an id of the node map and differs from rootID) has no effect on the *)
(* store: the root registry, the root set and the node map are the same    *)
(* after the aborted call as before it, and the lock is released.          *)
(***************************************************************************)
C24_FailureLeavesStore ==
    [][(panicked = "" /\ panicked' = "not implemented")
            => (UNCHANGED storeVars /\ mu' = "")]_vars

(***************************************************************************)
(* C23.  For well-formed input, in every state and for every id a request  *)
(* was observed for, a completed render shows the id in exactly one row    *)
(* (C23_VisibleOnce, the claim as stated); or: in exactly one row if the   *)
(* id and each of its ancestors is still linked to its parent, that is,    *)
(* the parent was not reset since the request of the id or ancestor was    *)
(* last observed, and in no row otherwise (C23_VisibleIfLinked).           *)
(***************************************************************************)
\* the number of rows of the render that show id
RowsOf(id) ==
    Cardinality({ p \in UNION { { <<i, j>> : j \in 1..Len(blocks[i]) } : i \in 1..Len(blocks) } :
                    blocks[p[1]][p[2]].id = id })

\* the parent every request of id names
ParentOf(id) == (CHOOSE s \in CallShapes : s[3] = id)[2]

RECURSIVE PathLinked(_)
\* id and each of its ancestors is in its parent's child list
PathLinked(id) == linked[id] /\ (ParentOf(id) = "" \/ PathLinked(ParentOf(id)))

C23_VisibleOnce == RenderDone => \A id \in DOMAIN linked : RowsOf(id) = 1

C23_VisibleIfLinked ==
    RenderDone => \A id \in DOMAIN linked : RowsOf(id) = IF PathLinked(id) THEN 1 ELSE 0

\* r was reset after the requests of a and b, a was observed again and b was not:
\* both are shown; and s is shown in a table of its own
C23_Witness ==
    /\ RenderDone
    /\ DOMAIN linked = {"r", "a", "b", "s"}
    /\ \A id \in DOMAIN linked : PathLinked(id) /\ RowsOf(id) = 1
    /\ ~nodes["r"].running /\ nodes["r"].responses = 0
    /\ nodes["a"].done
====
